---- MODULE Spec2Model ----
(***************************************************************************)
(* Model of the video generation core of EduVid AI                         *)
(* (backend/app/services/video_service.py and image_service.py).           *)
(*                                                                         *)
(* Three specifications share the variables below:                         *)
(*   SpecText    the pure text helpers applied to bounded scripts,         *)
(*   SpecImages  one call of get_topic_images with its two worker pools,   *)
(*   Spec        one call of create_video, stage by stage.                 *)
(*                                                                         *)
(* Strings are sequences of one-character strings; times are rationals     *)
(* <<numerator, denominator>> in seconds.                                  *)
(***************************************************************************)
EXTENDS Integers, Sequences, FiniteSets, TLC

\* ------------------------------------------------------------------------
\*  Bounds
\* ------------------------------------------------------------------------

\* longest script of SpecText, in sentence pieces
MaxPieces == 3
\* most 100-character sentences in a script of Spec
MaxLongSentences == 6
\* most segments handed to get_topic_images in SpecImages
MaxSegments == 6
\* most photo URLs the search answers with in SpecImages
MaxUrls == 7

\* ------------------------------------------------------------------------
\*  Generic helpers
\* ------------------------------------------------------------------------

Min(a, b) == IF a < b THEN a ELSE b

Max(a, b) == IF a > b THEN a ELSE b

None == "None"

\* concatenation of f[lo], ..., f[hi], by halving
RECURSIVE Flatten(_, _, _)
Flatten(f, lo, hi) ==
    IF lo > hi THEN << >>
    ELSE IF lo = hi THEN f[lo]
    ELSE LET mid == (lo + hi) \div 2
         IN  Flatten(f, lo, mid) \o Flatten(f, mid + 1, hi)

\* the k-th smallest element of a finite set of integers
KthOf(S, k) == CHOOSE i \in S : Cardinality({j \in S : j <= i}) = k

\* n copies of the character c
Rep(c, n) == [i \in 1..n |-> c]

\* ------------------------------------------------------------------------
\*  Python string operations used by the text helpers
\* ------------------------------------------------------------------------

\* str.replace(c, r) for a single character c
Replace(s, c, r) ==
    Flatten([i \in 1..Len(s) |-> IF s[i] = c THEN r ELSE <<s[i]>>], 1, Len(s))

\* str.split(sep) for a single character sep: always Len >= 1
SplitOn(s, sep) ==
    LET P == {i \in 1..Len(s) : s[i] = sep}
        n == Cardinality(P)
        lo(k) == IF k = 1 THEN 1 ELSE KthOf(P, k - 1) + 1
        hi(k) == IF k = n + 1 THEN Len(s) ELSE KthOf(P, k) - 1
    IN  [k \in 1..(n + 1) |-> SubSeq(s, lo(k), hi(k))]

\* str.strip()
Strip(s) ==
    LET N == {i \in 1..Len(s) : s[i] # " "}
    IN  IF N = {} THEN << >>
        ELSE SubSeq(s, KthOf(N, 1), KthOf(N, Cardinality(N)))

\* str.split() with no argument: the maximal runs of non-blank characters
Words(s) ==
    LET B == {i \in 1..Len(s) : s[i] # " " /\ (i = 1 \/ s[i - 1] = " ")}
        E == {i \in 1..Len(s) : s[i] # " " /\ (i = Len(s) \/ s[i + 1] = " ")}
    IN  [k \in 1..Cardinality(B) |-> SubSeq(s, KthOf(B, k), KthOf(E, k))]

\* " ".join(ws)
JoinSp(ws) ==
    Flatten([k \in 1..Len(ws) |-> IF k = 1 THEN ws[k] ELSE <<" ">> \o ws[k]],
            1, Len(ws))

\* ------------------------------------------------------------------------
\*  Rational arithmetic for durations (Python floats, modelled exactly)
\* ------------------------------------------------------------------------

RatEq(a, b) == a[1] * b[2] = b[1] * a[2]

RatLt(a, b) == a[1] * b[2] < b[1] * a[2]

RatLe(a, b) == a[1] * b[2] <= b[1] * a[2]

RatMax(a, b) == IF RatLt(a, b) THEN b ELSE a

RatMin(a, b) == IF RatLt(b, a) THEN b ELSE a

RECURSIVE GCD(_, _)
GCD(m, n) == IF n = 0 THEN m ELSE GCD(n, m % n)

Abs(m) == IF m < 0 THEN -m ELSE m

\* lowest terms; a zero denominator (a division by zero) is left as it is
Norm(a) ==
    LET g == GCD(Abs(a[1]), a[2])
    IN  IF a[2] = 0 \/ g = 0 THEN a ELSE <<a[1] \div g, a[2] \div g>>

RatAdd(a, b) == Norm(<<a[1] * b[2] + b[1] * a[2], a[2] * b[2]>>)

\* a / n and a * n for a non-negative integer n
RatDivInt(a, n) == Norm(<<a[1], a[2] * n>>)

RatMulInt(a, n) == Norm(<<a[1] * n, a[2]>>)

RECURSIVE RatSum(_)
RatSum(ds) == IF ds = << >> THEN <<0, 1>> ELSE RatAdd(ds[1], RatSum(Tail(ds)))

\* int(x): truncation of a non-negative rational
RatInt(a) == a[1] \div a[2]

\* round(x, 2) as hundredths of a second, ties to even
\* mutant: truncation to two decimals
Round2_Truncate(a) == <<(a[1] * 100) \div a[2], 100>>

Round2(a) ==
    LET n == a[1] * 100
        q == n \div a[2]
        r == n % a[2]
    IN  IF 2 * r < a[2] THEN <<q, 100>>
        ELSE IF 2 * r > a[2] THEN <<q + 1, 100>>
        ELSE IF q % 2 = 0 THEN <<q, 100>> ELSE <<q + 1, 100>>

\* ------------------------------------------------------------------------
\*  video_service.py: script / subtitle helpers
\* ------------------------------------------------------------------------

\* the parts of line 321, trimmed (line 322)
Fragments(script) ==
    LET marked == Replace(Replace(Replace(script, "!", <<"!", "|">>),
                                  ".", <<".", "|">>),
                          "?", <<"?", "|">>)
        parts  == SplitOn(marked, "|")
    IN  [k \in 1..Len(parts) |-> Strip(parts[k])]

\* the fragments line 323 keeps
Sentences(script) ==
    LET keep(p) == Len(p) > 10
    IN  SelectSeq(Fragments(script), keep)

\* mutant: a sentence is added while the sum is at most 200
Fits_AtMost200(current, s) == Len(current) + Len(s) <= 200

\* the test of line 328
Fits(current, s) == Len(current) + Len(s) < 200

\* the packing loop of lines 326-335, from sentence k on
RECURSIVE Pack(_, _, _, _)
Pack(sentences, k, segs, current) ==
    IF k > Len(sentences)
    THEN IF current # << >> THEN Append(segs, current) ELSE segs
    ELSE LET s == sentences[k]
         IN  IF Fits(current, s)
             THEN Pack(sentences, k + 1, segs,
                       IF current # << >>
                       THEN Strip(current \o <<" ">> \o s) ELSE s)
             ELSE Pack(sentences, k + 1,
                       IF current # << >> THEN Append(segs, current) ELSE segs,
                       s)

\* mutant: without the fallback to the whole script
split_script_into_segments_NoFallback(script) ==
    Pack(Sentences(script), 1, << >>, << >>)

split_script_into_segments(script) ==
    LET segs == Pack(Sentences(script), 1, << >>, << >>)
    IN  IF segs # << >> THEN segs ELSE <<script>>

\* the loop of lines 375-380, from word offset i (0-based) on
RECURSIVE CueLoop(_, _, _, _, _, _)
CueLoop(words, i, chunk, tpw, total_duration, subs) ==
    IF i >= Len(words) THEN subs
    ELSE CueLoop(words, i + chunk, chunk, tpw, total_duration,
             Append(subs,
               [text  |-> JoinSp(SubSeq(words, i + 1,
                                        Min(i + chunk, Len(words)))),
                start |-> Round2(RatMulInt(tpw, i)),
                end   |-> Round2(RatMin(RatMulInt(tpw, i + chunk),
                                        total_duration))]))

\* mutant: windows of 5 words
generate_subtitle_data_Chunk5(script, total_duration) ==
    LET words == Words(script)
    IN  IF words = << >> THEN << >>
        ELSE CueLoop(words, 0, 5, RatDivInt(total_duration, Len(words)),
                     total_duration, << >>)

generate_subtitle_data(script, total_duration) ==
    LET words == Words(script)
    IN  IF words = << >> THEN << >>
        ELSE CueLoop(words, 0, 6, RatDivInt(total_duration, Len(words)),
                     total_duration, << >>)

\* ------------------------------------------------------------------------
\*  Inputs
\* ------------------------------------------------------------------------

\* a word of n letters
Word(n) == Rep("a", n)

\* n words of 4 letters separated by blanks
WordRun(n) == JoinSp([k \in 1..n |-> Word(4)])

\* "aa."  :  3 characters, below the sentence threshold
PShort == Word(2) \o <<".">>

\* "aaaa aaaa."  :  exactly 10 characters
PTen == WordRun(2) \o <<".">>

\* "aaaa aaaaa!"  :  11 characters
PEleven == Word(4) \o <<" ">> \o Word(5) \o <<"!">>

\* "aaaa aaaa aaaa"  :  14 characters without a terminator
POpen == WordRun(3)

\* 20 words and a full stop  :  100 characters
PLong == WordRun(20) \o <<".">>

\* 41 words and a full stop  :  205 characters
PHuge == WordRun(41) \o <<".">>

Pieces == {PShort, PTen, PEleven, POpen, PLong, PHuge}

\* the pieces of ps separated by single blanks
JoinPieces(ps) == JoinSp(ps)

TextScripts ==
    {JoinPieces(ps) : ps \in UNION {[1..n -> Pieces] : n \in 0..MaxPieces}}

\* scripts of the pipeline: k long sentences after an optional short opening
PipelineScripts ==
    {JoinPieces([i \in 1..k |-> PLong]) : k \in 0..MaxLongSentences}
      \cup {PShort, PEleven \o <<" ">> \o PShort}

\* total durations of SpecText: 5 s, 12.5 s, 20 s, ...
MaxDurations == 3

\* durations with a third decimal, as mutagen measures them: 12.344 s and
\* 12.346 s
FineDurations == {<<3086, 250>>, <<6173, 500>>}

TextDurations == {<<15 * k - 5, 2>> : k \in 1..MaxDurations} \cup FineDurations

\* ------------------------------------------------------------------------
\*  State
\* ------------------------------------------------------------------------

VARIABLES
    pc,          \* position in create_video ("text" / "images" in the others)
    script,      \* the narration script
    temp_dir,    \* TEMP_DIR/video_<id>: whether it exists, and its files
    video_dir,   \* files this job left in VIDEO_DIR: <<name, content>>
    audio_file,  \* narration.mp3: [kind, len]
    tts_ret,     \* value returned by generate_tts_audio
    worker,      \* the _gtts_worker child process
    jobs,        \* two concurrent jobs: positions, files, process-wide state
    rec,         \* the videos table, the background tasks and VIDEO_DIR
    runs,        \* two runs of create_fallback_image
    audio_dur,   \* audio_dur of create_video; total_duration in SpecText
    segments,    \* result of split_script_into_segments
    n_slides,
    time_per,
    images,      \* the images list (slots hold None or the tier that filled them)
    frame_paths, \* rendered frames: the image slot each was drawn from
    subs,        \* subtitle cues
    durations,   \* per-slide durations handed to the assembler
    asm,         \* locals of the assembly helpers
    result,      \* the returned manifest, or None
    exc,         \* the exception create_video / get_topic_images raised, or None
    img          \* locals of get_topic_images

vars == <<pc, script, temp_dir, video_dir, audio_file, tts_ret, worker, jobs, rec, runs, audio_dur,
          segments, n_slides, time_per, images, frame_paths, subs, durations,
          asm, result, exc, img>>

textVars == <<script, audio_dur, segments, subs>>

jobVars == <<temp_dir, video_dir, audio_file, tts_ret, worker, jobs, rec, runs, n_slides, time_per,
             frame_paths, durations, asm, result>>

NoFile == [kind |-> "absent", len |-> <<0, 1>>]

NoDir == [exists |-> FALSE, files |-> {}]

NoResult == [set |-> FALSE, file_path |-> "", thumbnail_path |-> "",
             duration |-> 0, subtitle_text |-> << >>]

JobsIdle == [ids |-> << >>, at |-> << >>, files |-> {}, font_cache |-> {},
             pending |-> << >>, touched |-> << >>, wrote |-> << >>,
             removed |-> << >>]

\* no row with the id in the videos table (database.py lines 39-54)
NoRow == [exists |-> FALSE, owner |-> 0, status |-> "none", file_path |-> 0,
          thumbnail_path |-> FALSE, duration |-> FALSE,
          subtitle_text |-> FALSE, error_len |-> 0]

RecIdle == [row |-> NoRow, tasks |-> << >>, files |-> {}, cancelled |-> {},
            created |-> 0]

RunsIdle == [topic |-> << >>, variant |-> 0, secret |-> << >>,
             out |-> << >>]

AsmIdle == [path |-> "none", clips |-> << >>, i |-> 0, merged |-> NoFile,
            with_audio |-> NoFile, muxed |-> FALSE,
            cur_duration |-> <<0, 1>>, offset |-> <<0, 1>>,
            concat_list |-> << >>, burn |-> "none"]

ImgIdle == [nsegs |-> 0, needed |-> 0, urls |-> 0, phase |-> "none",
            futures |-> << >>, timed_out |-> "none"]

\* ------------------------------------------------------------------------
\*  SpecText: the text helpers applied to bounded inputs
\* ------------------------------------------------------------------------

TextInit ==
    /\ pc = "text"
    /\ script \in TextScripts
    /\ audio_dur \in TextDurations
    /\ segments = << >>
    /\ subs = << >>
    /\ temp_dir = NoDir /\ video_dir = {} /\ audio_file = NoFile
    /\ tts_ret = <<0, 1>> /\ worker = "none" /\ jobs = JobsIdle /\ rec = RecIdle /\ runs = RunsIdle
    /\ n_slides = 0 /\ time_per = <<0, 1>>
    /\ images = << >> /\ frame_paths = << >> /\ durations = << >>
    /\ asm = AsmIdle /\ result = NoResult /\ exc = None /\ img = ImgIdle

TextSplit ==
    /\ pc = "text"
    /\ segments' = split_script_into_segments(script)
    /\ pc' = "text_split"
    /\ UNCHANGED <<script, audio_dur, subs, jobVars, images, exc, img>>

TextCues ==
    /\ pc = "text_split"
    /\ subs' = generate_subtitle_data(script, audio_dur)
    /\ pc' = "text_done"
    /\ UNCHANGED <<script, audio_dur, segments, jobVars, images, exc, img>>

TextNext == TextSplit \/ TextCues

SpecText == TextInit /\ [][TextNext]_vars

\* ------------------------------------------------------------------------
\*  Properties of the text helpers
\* ------------------------------------------------------------------------

Ceil6(W) == (W + 5) \div 6

\* all words of the cues, in cue order
CueWords(cs) == Flatten([k \in 1..Len(cs) |-> Words(cs[k].text)], 1, Len(cs))

\* C10: for a script with W words generate_subtitle_data returns ceil(W/6)
\* cues; the cues hold the words of the script in order, 6 words in every
\* cue but the last, which holds the 1 to 6 remaining words; a script
\* without words gives the empty list.
C10_CueCount ==
    pc = "text_done" =>
        LET words == Words(script)
            W     == Len(words)
        IN  /\ Len(subs) = Ceil6(W)
            /\ CueWords(subs) = words
            /\ \A k \in 1..Len(subs) :
                 LET n == Len(Words(subs[k].text))
                 IN  /\ n >= 1 /\ n <= 6
                     /\ k < Len(subs) => n = 6
            /\ W = 0 => subs = << >>

\* a script of more than 6 words, not a multiple of 6, has been cut into cues
C10_Witness ==
    /\ pc = "text_done"
    /\ Len(subs) >= 2
    /\ Len(Words(script)) % 6 # 0
    /\ Len(Words(subs[Len(subs)].text)) < 6

\* the cues start at 0, have start <= end and follow one another without
\* overlap or gap
CuesContiguous(cs) ==
    /\ RatEq(cs[1].start, <<0, 1>>)
    /\ \A k \in 1..Len(cs) : RatLe(cs[k].start, cs[k].end)
    /\ \A k \in 1..(Len(cs) - 1) : RatEq(cs[k].end, cs[k + 1].start)

MaxMeasured == 3

MeasuredLens == {<<15 * k - 9, 2>> : k \in 1..MaxMeasured}

CROSSFADE_DURATION == <<3, 5>>

\* duration of line 356: max(words / 2.5, 15)
SilentDuration(text) == RatMax(<<2 * Len(Words(text)), 5>>, <<15, 1>>)

\* mutant: one image per segment, uncapped
Needed_Uncapped(nsegs) == 1 + nsegs

\* mutant: the cap at 6 segments
Needed_Cap6(nsegs) == 1 + Min(nsegs, 6)

\* needed of get_topic_images (line 208)
Needed(nsegs) == 1 + Min(nsegs, 5)

\* mutant: the title slide left out of the division
TimePer_PerSegment(dur, slides) == RatDivInt(dur, slides - 1)

\* time_per of create_video (line 613)
TimePer(dur, slides) == RatDivInt(dur, slides)

\* mutant: the finally block moved to the end of the try body
Finally_OnReturnOnly(raising) ==
    temp_dir' = IF raising THEN temp_dir ELSE NoDir

\* the finally block of create_video: shutil.rmtree(temp_dir)
Finally(raising) == temp_dir' = NoDir

\* except Exception: raise, then the finally block
Raises(e) ==
    /\ exc' = e
    /\ pc' = "raised"
    /\ Finally(TRUE)

\* a file written into the job directory
AddTemp(kind, n) == [temp_dir EXCEPT !.files = @ \cup {[kind |-> kind, n |-> n]}]

Init ==
    /\ pc = "start"
    /\ script \in PipelineScripts
    /\ audio_dur = <<0, 1>>
    /\ segments = << >>
    /\ subs = << >>
    /\ temp_dir = NoDir /\ video_dir = {} /\ audio_file = NoFile
    /\ tts_ret = <<0, 1>> /\ worker = "none" /\ jobs = JobsIdle /\ rec = RecIdle /\ runs = RunsIdle
    /\ n_slides = 0 /\ time_per = <<0, 1>>
    /\ images = << >> /\ frame_paths = << >> /\ durations = << >>
    /\ asm = AsmIdle /\ result = NoResult /\ exc = None /\ img = ImgIdle

\* lines 600-602
MakeTempDir ==
    /\ pc = "start"
    /\ temp_dir' = [exists |-> TRUE, files |-> {}]
    /\ pc' = "audio"
    /\ UNCHANGED <<script, video_dir, audio_file, tts_ret, worker, jobs, rec, runs, audio_dur, segments,
                   n_slides, time_per, images, frame_paths, subs, durations,
                   asm, result, exc, img>>

\* the audio path holds something: narration.mp3 is in the job directory
WithAudioFile(f) ==
    IF f.kind = "absent" THEN temp_dir ELSE AddTemp("narration.mp3", 0)

\* lines 605-607 and 343-345: the worker process is started
TtsStart ==
    /\ pc = "audio"
    /\ worker' = "running"
    /\ pc' = "tts_join"
    /\ UNCHANGED <<script, temp_dir, video_dir, audio_file, tts_ret, jobs, rec, runs,
                   audio_dur, segments, n_slides, time_per, images,
                   frame_paths, subs, durations, asm, result, exc, img>>

\* _gtts_worker (lines 28-34) ends within the 30 s: it has saved speech, or
\* an undersized file, or nothing (its exception is swallowed)
WorkerSaves ==
    /\ pc = "tts_join"
    /\ worker = "running"
    /\ \E f \in {[kind |-> "speech", len |-> L] : L \in MeasuredLens}
                 \cup {[kind |-> "partial", len |-> <<0, 1>>], NoFile} :
         /\ audio_file' = f
         /\ temp_dir' = WithAudioFile(f)
    /\ worker' = "exited"
    /\ UNCHANGED <<pc, script, video_dir, tts_ret, jobs, rec, runs, audio_dur, segments,
                   n_slides, time_per, images, frame_paths, subs, durations,
                   asm, result, exc, img>>

\* lines 346-353 and 608: the worker was joined in time; a file of more
\* than 1000 bytes gives the measured length, anything else RuntimeError
TtsJoined ==
    /\ pc = "tts_join"
    /\ worker = "exited"
    /\ IF audio_file.kind = "speech"
       THEN /\ tts_ret' = audio_file.len
            /\ audio_dur' = RatMax(audio_file.len, <<10, 1>>)
            /\ pc' = "segments"
       ELSE /\ pc' = "tts_fallback"
            /\ UNCHANGED <<tts_ret, audio_dur>>
    /\ UNCHANGED <<script, temp_dir, video_dir, audio_file, worker, jobs, rec, runs,
                   segments, n_slides, time_per, images, frame_paths, subs,
                   durations, asm, result, exc, img>>

\* the worker after terminate() and join(2) (lines 348-349): it has ended,
\* or it has not and is left running
AfterTerminate == {"terminated", "orphan"}

\* lines 346-350: the join times out with the worker alive, possibly in the
\* middle of its save
TtsTimeout ==
    /\ pc = "tts_join"
    /\ worker = "running"
    /\ worker' \in AfterTerminate
    /\ \E f \in {[kind |-> "partial", len |-> <<0, 1>>], NoFile} :
         /\ audio_file' = f
         /\ temp_dir' = WithAudioFile(f)
    /\ pc' = "tts_fallback"
    /\ UNCHANGED <<script, video_dir, tts_ret, jobs, rec, runs, audio_dur, segments,
                   n_slides, time_per, images, frame_paths, subs, durations,
                   asm, result, exc, img>>

\* lines 354-366 and 608: the silent track is encoded over the audio path;
\* the exit status of the encoder is not looked at and its timeout is
\* swallowed, so the estimate is returned whatever the encoder did
SilentFallback ==
    /\ pc = "tts_fallback"
    /\ LET duration == SilentDuration(script)
       IN  /\ tts_ret' = duration
           /\ audio_dur' = RatMax(duration, <<10, 1>>)
           /\ \E f \in {[kind |-> "silence", len |-> duration],
                        [kind |-> "partial", len |-> <<0, 1>>],
                        audio_file} :
                /\ audio_file' = f
                /\ temp_dir' = WithAudioFile(f)
    /\ pc' = "segments"
    /\ UNCHANGED <<script, video_dir, worker, jobs, rec, runs, segments, n_slides,
                   time_per, images, frame_paths, subs, durations, asm,
                   result, exc, img>>

\* a worker that survived terminate() finishes its save (line 32) while the
\* job directory is still there
OrphanWrites ==
    /\ worker = "orphan"
    /\ temp_dir.exists
    /\ \E f \in {[kind |-> "speech", len |-> L] : L \in MeasuredLens}
                 \cup {[kind |-> "partial", len |-> <<0, 1>>]} :
         /\ audio_file' = f
         /\ temp_dir' = WithAudioFile(f)
    /\ worker' = "gone"
    /\ UNCHANGED <<pc, script, video_dir, tts_ret, jobs, rec, runs, audio_dur, segments,
                   n_slides, time_per, images, frame_paths, subs, durations,
                   asm, result, exc, img>>

\* a worker that survived terminate() ends without writing
OrphanExits ==
    /\ worker = "orphan"
    /\ worker' = "gone"
    /\ UNCHANGED <<pc, script, temp_dir, video_dir, audio_file, tts_ret, jobs, rec, runs,
                   audio_dur, segments, n_slides, time_per, images,
                   frame_paths, subs, durations, asm, result, exc, img>>

\* lines 610-613
Segmentation ==
    /\ pc = "segments"
    /\ segments' = split_script_into_segments(script)
    /\ n_slides' = Len(segments') + 1
    /\ time_per' = TimePer(audio_dur, n_slides')
    /\ pc' = "images"
    /\ UNCHANGED <<script, temp_dir, video_dir, audio_file, tts_ret, worker, jobs, rec, runs, audio_dur,
                   images, frame_paths, subs, durations, asm, result, exc, img>>

\* lines 615-620: get_topic_images returns a list of needed images, every
\* slot filled, or lets the TimeoutError of as_completed escape
FetchImages ==
    /\ pc = "images"
    /\ \/ /\ images' = [i \in 1..Needed(Len(segments)) |-> "image"]
          /\ pc' = "title"
          /\ UNCHANGED <<temp_dir, exc>>
       \/ /\ Raises("TimeoutError")
          /\ UNCHANGED images
    /\ UNCHANGED <<script, video_dir, audio_file, tts_ret, worker, jobs, rec, runs, audio_dur, segments,
                   n_slides, time_per, frame_paths, subs, durations, asm,
                   result, img>>

\* lines 626-633: the title frame is drawn from images[0]
TitleFrame ==
    /\ pc = "title"
    /\ \/ /\ frame_paths' = <<1>>
          /\ temp_dir' = AddTemp("frame.png", 0)
          /\ pc' = "content"
          /\ UNCHANGED exc
       \/ /\ Raises("frame rendering")
          /\ UNCHANGED frame_paths
    /\ UNCHANGED <<script, video_dir, audio_file, tts_ret, worker, jobs, rec, runs, audio_dur, segments,
                   n_slides, time_per, images, subs, durations, asm, result,
                   img>>

\* mutant: no fallback to the last image
ContentSlot_NoFallback(i, imgs) == i + 2

\* the slot (1-based) that line 637 picks for content frame i (0-based)
ContentSlot(i, imgs) == IF i + 1 < Len(imgs) THEN i + 2 ELSE Len(imgs)

\* lines 636-644: one iteration of the content loop
ContentFrame ==
    /\ pc = "content"
    /\ LET i == Len(frame_paths) - 1
       IN  /\ i < Len(segments)
           /\ \/ /\ frame_paths' = Append(frame_paths, ContentSlot(i, images))
                 /\ temp_dir' = AddTemp("frame.png", i + 1)
                 /\ pc' = IF i + 1 < Len(segments) THEN "content" ELSE "subs"
                 /\ UNCHANGED exc
              \/ /\ Raises("frame rendering")
                 /\ UNCHANGED frame_paths
    /\ UNCHANGED <<script, video_dir, audio_file, tts_ret, worker, jobs, rec, runs, audio_dur, segments,
                   n_slides, time_per, images, subs, durations, asm, result,
                   img>>

\* lines 646-656: cues, the subtitle file, and the per-slide durations
Subtitles ==
    /\ pc = "subs"
    /\ subs' = generate_subtitle_data(script, audio_dur)
    /\ \/ /\ temp_dir' = AddTemp("subtitles.srt", 0)
          /\ durations' = [k \in 1..n_slides |-> time_per]
          /\ asm' = [AsmIdle EXCEPT !.path = "kenburns"]
          /\ pc' = "kb_clip"
          /\ UNCHANGED exc
       \/ /\ Raises("subtitle file")
          /\ UNCHANGED <<durations, asm>>
    /\ UNCHANGED <<script, video_dir, audio_file, tts_ret, worker, jobs, rec, runs, audio_dur, segments,
                   n_slides, time_per, images, frame_paths, result, img>>

\* ------------------------------------------------------------------------
\*  Assembly: _assemble_kenburns, _crossfade_clips, _xfade_chain,
\*  _assemble_simple, _burn_subtitles
\* ------------------------------------------------------------------------

\* the Ken-Burns path raised: create_video goes on to _assemble_simple
\* (lines 665-670)
KenBurnsRaised == [asm EXCEPT !.path = "simple"]

\* mutant: the merge starts after the first clip
AfterClip_MergeEarly(i, n) == "xfade"

\* the loop of line 414 goes on to the next frame, and line 438 follows
\* the last one
AfterClip(i, n) == IF i + 1 < n THEN "kb_clip" ELSE "xfade"

\* mutant: no clip is lengthened by the crossfade
ClipDur_NoExtra(durs, i, n) == Round2(durs[i + 1])

\* clip_dur of lines 414-417 as the -t option of line 426 passes it on
\* (two decimals), for clip i (0-based) of n
ClipDur(durs, i, n) ==
    Round2(RatAdd(durs[i + 1],
                  IF i < n - 1 THEN CROSSFADE_DURATION ELSE <<0, 1>>))

\* lines 414-435: one iteration of the clip loop
KenBurnsClip ==
    /\ pc = "kb_clip"
    /\ LET i        == Len(asm.clips)
           clip_dur == ClipDur(durations, i, Len(frame_paths))
       IN  \/ /\ asm' = [asm EXCEPT
                    !.clips = Append(@, [kind |-> "clip", len |-> clip_dur]),
                    !.merged = IF i = 0
                               THEN [kind |-> "clip", len |-> clip_dur]
                               ELSE @,
                    !.i = 1]
              /\ temp_dir' = AddTemp("clip.mp4", i)
              /\ pc' = AfterClip(i, Len(frame_paths))
           \/ \* non-zero exit or timeout of the encoder
              /\ asm' = KenBurnsRaised
              /\ pc' = "simple"
              /\ UNCHANGED temp_dir
    /\ UNCHANGED <<script, video_dir, audio_file, tts_ret, worker, jobs, rec, runs, audio_dur, segments,
                   n_slides, time_per, images, frame_paths, subs, durations,
                   result, exc, img>>

\* mutant: the offset without its floor
XfadeOffset_NoFloor(cur_duration, fade_dur) ==
    RatAdd(cur_duration, <<-fade_dur[1], fade_dur[2]>>)

\* offset of line 508
XfadeOffset(cur_duration, fade_dur) ==
    RatMax(RatAdd(cur_duration, <<-fade_dur[1], fade_dur[2]>>), <<1, 10>>)

\* lines 495-524: one iteration of _xfade_chain: the duration of the current
\* file is probed, the offset computed and the transition merged; any
\* failure is caught by _crossfade_clips (line 470), which turns to the
\* concat fallback
XfadeStep ==
    /\ pc = "xfade"
    /\ LET i            == asm.i
           cur_duration == asm.merged.len
           offset       == XfadeOffset(cur_duration, CROSSFADE_DURATION)
       IN  \/ /\ asm' = [asm EXCEPT
                    !.merged = [kind |-> "xfade",
                                len |-> RatAdd(offset, asm.clips[i + 1].len)],
                    !.cur_duration = cur_duration,
                    !.offset = offset,
                    !.i = i + 1]
              /\ temp_dir' = AddTemp("xfade.mp4", i)
              /\ pc' = IF i + 1 < Len(asm.clips) THEN "xfade" ELSE "mux"
           \/ \* the probe failed, timed out or printed no number
              /\ asm' = [asm EXCEPT !.merged = NoFile]
              /\ pc' = "concat"
              /\ UNCHANGED temp_dir
           \/ \* the merge failed or timed out
              /\ asm' = [asm EXCEPT !.merged = NoFile,
                                    !.cur_duration = cur_duration,
                                    !.offset = offset]
              /\ pc' = "concat"
              /\ UNCHANGED temp_dir
    /\ UNCHANGED <<script, video_dir, audio_file, tts_ret, worker, jobs, rec, runs,
                   audio_dur, segments, n_slides, time_per, images,
                   frame_paths, subs, durations, result, exc, img>>

ClipLens == [k \in 1..Len(asm.clips) |-> asm.clips[k].len]

\* mutant: only the clips the chain had not merged yet
ConcatList_Remaining(clip_paths, i) ==
    [k \in 1..(Len(clip_paths) - i) |-> i + k]

\* the clips written to clips.txt (lines 474-476), as indices into
\* clip_paths; i is the number of clips the chain had consumed
ConcatList(clip_paths, i) == [k \in 1..Len(clip_paths) |-> k]

\* lines 472-485: concat of the original clips
ConcatFallback ==
    /\ pc = "concat"
    /\ LET list == ConcatList(asm.clips, asm.i)
           lens == [k \in 1..Len(list) |-> asm.clips[list[k]].len]
       IN  \/ /\ asm' = [asm EXCEPT
                    !.concat_list = list,
                    !.merged = [kind |-> "concat", len |-> RatSum(lens)]]
              /\ temp_dir' = AddTemp("merged.mp4", 0)
              /\ pc' = "mux"
           \/ \* non-zero exit (line 484) or timeout: _assemble_kenburns
              \* raises
              /\ asm' = [KenBurnsRaised EXCEPT !.concat_list = list]
              /\ temp_dir' = AddTemp("clips.txt", 0)
              /\ pc' = "simple"
    /\ UNCHANGED <<script, video_dir, audio_file, tts_ret, worker, jobs, rec, runs,
                   audio_dur, segments, n_slides, time_per, images,
                   frame_paths, subs, durations, result, exc, img>>

\* has_audio of lines 441 and 540
HasAudio == audio_file.kind # "absent"

\* lines 440-456
AudioMux ==
    /\ pc = "mux"
    /\ \/ /\ HasAudio
          /\ asm' = [asm EXCEPT
                !.with_audio = [kind |-> "with_audio",
                                len |-> IF audio_file.kind = "partial"
                                        THEN asm.merged.len
                                        ELSE RatMin(asm.merged.len,
                                                    audio_file.len)],
                !.muxed = TRUE]
          /\ temp_dir' = AddTemp("with_audio.mp4", 0)
          /\ pc' = "burn"
       \/ \* no audio file, or non-zero exit of the mux: video only
          /\ asm' = [asm EXCEPT !.with_audio = asm.merged]
          /\ pc' = "burn"
          /\ UNCHANGED temp_dir
       \/ \* timeout of the mux: _assemble_kenburns raises
          /\ HasAudio
          /\ asm' = KenBurnsRaised
          /\ pc' = "simple"
          /\ UNCHANGED temp_dir
    /\ UNCHANGED <<script, video_dir, audio_file, tts_ret, worker, jobs, rec, runs, audio_dur, segments,
                   n_slides, time_per, images, frame_paths, subs, durations,
                   result, exc, img>>

\* mutant: the simple path never takes the audio in
SimpleHasAudio_Never == FALSE

\* has_audio of line 540: the simple path adds the audio input and -shortest
SimpleHasAudio == HasAudio

\* lines 529-554, up to the call of _burn_subtitles
SimpleAssembly ==
    /\ pc = "simple"
    /\ \/ /\ asm' = [asm EXCEPT
                !.with_audio = [kind |-> "simple",
                                len |-> IF audio_file.kind \in {"absent", "partial"}
                                        THEN RatSum(durations)
                                        ELSE RatMin(RatSum(durations),
                                                    audio_file.len)],
                !.muxed = SimpleHasAudio]
          /\ temp_dir' = AddTemp("simple.mp4", 0)
          /\ pc' = "burn"
          /\ UNCHANGED exc
       \/ \* non-zero exit (line 552) or timeout: the job fails
          /\ Raises("simple assembly")
          /\ UNCHANGED asm
    /\ UNCHANGED <<script, video_dir, audio_file, tts_ret, worker, jobs, rec, runs, audio_dur, segments,
                   n_slides, time_per, images, frame_paths, subs, durations,
                   result, img>>

\* mutant: a failed burn-in leaves what the encoder wrote
burn_subtitles_NoRename(input_exists, encoder_ok) ==
    IF encoder_ok THEN {"captioned"} ELSE {"partial"}

\* what _burn_subtitles leaves at output_path (lines 575-583): the encoder's
\* file when it exits with 0; when it fails, times out or raises, the input
\* renamed over the output path if the input exists (TEMP_DIR and VIDEO_DIR
\* are sibling directories, line 17-18 of config.py); it never raises then
burn_subtitles(input_exists, encoder_ok) ==
    IF encoder_ok THEN {"captioned"}
    ELSE IF input_exists THEN {"uncaptioned"} ELSE {"partial"}

\* line 459 / line 554
BurnSubtitles ==
    /\ pc = "burn"
    /\ \E encoder_ok \in BOOLEAN :
         /\ \E content \in burn_subtitles(asm.with_audio.kind # "absent",
                                          encoder_ok) :
              video_dir' = video_dir \cup {<<"video", content>>}
         /\ asm' = [asm EXCEPT !.burn = IF encoder_ok THEN "ok" ELSE "failed"]
    /\ pc' = "thumb"
    /\ UNCHANGED <<script, temp_dir, audio_file, tts_ret, worker, jobs, rec, runs,
                   audio_dur, segments, n_slides, time_per, images,
                   frame_paths, subs, durations, result, exc, img>>

\* lines 672-685 and the finally block
Thumbnail ==
    /\ pc = "thumb"
    /\ \/ /\ video_dir' = video_dir \cup {<<"thumb", "png">>}
          /\ result' = [set |-> TRUE, file_path |-> "video",
                        thumbnail_path |-> "thumb",
                        duration |-> RatInt(audio_dur),
                        subtitle_text |-> subs]
          /\ pc' = "returned"
          /\ Finally(FALSE)
          /\ UNCHANGED exc
       \/ /\ Raises("thumbnail")
          /\ UNCHANGED <<video_dir, result>>
    /\ UNCHANGED <<script, audio_file, tts_ret, worker, jobs, rec, runs, audio_dur, segments, n_slides,
                   time_per, images, frame_paths, subs, durations, asm, img>>

Next ==
    \/ MakeTempDir
    \/ TtsStart
    \/ WorkerSaves
    \/ TtsJoined
    \/ TtsTimeout
    \/ SilentFallback
    \/ OrphanWrites
    \/ OrphanExits
    \/ Segmentation
    \/ FetchImages
    \/ TitleFrame
    \/ ContentFrame
    \/ Subtitles
    \/ KenBurnsClip
    \/ XfadeStep
    \/ ConcatFallback
    \/ AudioMux
    \/ SimpleAssembly
    \/ BurnSubtitles
    \/ Thumbnail

Spec == Init /\ [][Next]_vars

\* the stages of _assemble_kenburns before its caption burn-in
KenBurnsStages == {"kb_clip", "xfade", "concat", "mux"}

\* the simple path is entered only from a Ken-Burns stage that raised, and
\* with the frames, durations, audio and cues the Ken-Burns path had
SimpleOnlyAfterKenBurnsRaised ==
    (pc' = "simple" /\ pc # "simple") =>
        /\ pc \in KenBurnsStages
        /\ asm.path = "kenburns" /\ asm'.path = "simple"
        /\ UNCHANGED <<frame_paths, durations, audio_file, subs>>

\* a Ken-Burns stage never ends the job: it goes on, or to the simple path
KenBurnsNeverFailsJob ==
    (pc \in KenBurnsStages /\ asm.path = "kenburns") =>
        pc' \in KenBurnsStages \cup {"simple", "burn"}

\* the simple path muxes the audio that is there and goes on to the caption
\* burn-in, or raises
SimpleMuxesAndBurns ==
    (pc = "simple" /\ pc' # "simple") =>
        \/ pc' = "burn" /\ asm'.muxed = HasAudio /\ asm'.path = "simple"
        \/ pc' = "raised" /\ exc' = "simple assembly"

\* C13: when _assemble_kenburns raises at any stage, _assemble_simple runs
\* next with the same frames, durations, audio and subtitle file, muxes the
\* audio and burns the captions; it runs only after the Ken-Burns path
\* raised, and the job fails at assembly only when both paths raised.
C13_SimpleIsTheFallback ==
    /\ [][SimpleOnlyAfterKenBurnsRaised]_vars
    /\ [][KenBurnsNeverFailsJob]_vars
    /\ [][SimpleMuxesAndBurns]_vars
    /\ [](exc = "simple assembly" => asm.path = "simple")
    /\ [](pc = "burn" => asm.path \in {"kenburns", "simple"})

\* the audio mux of the Ken-Burns path timed out after the clips were
\* merged, and the simple path has muxed the audio and burnt the captions
C13_Witness ==
    /\ pc = "thumb"
    /\ asm.path = "simple"
    /\ asm.merged.kind \in {"xfade", "concat"}
    /\ asm.with_audio.kind = "simple"
    /\ asm.muxed

\* ------------------------------------------------------------------------
\*  SpecXfade: one call of _crossfade_clips on clips of any length
\* ------------------------------------------------------------------------

\* durations ffprobe can report for a clip: 0.3 s, 0.6 s, 0.9 s, 1.2 s, ...
MaxProbe == 4

ProbeLens == {<<3 * k, 10>> : k \in 1..MaxProbe}

\* number of clips handed to _crossfade_clips
MaxClips == 4

ClipLists ==
    UNION {[1..n -> {[kind |-> "clip", len |-> d] : d \in ProbeLens}] :
             n \in 2..MaxClips}

\* lines 462-468 and 492: two or more clips, current = clip_paths[0]
XfadeInit ==
    /\ pc = "xfade"
    /\ \E cl \in ClipLists :
         asm = [AsmIdle EXCEPT !.path = "kenburns", !.clips = cl,
                               !.merged = cl[1], !.i = 1]
    /\ temp_dir = [exists |-> TRUE, files |-> {}]
    /\ script = << >> /\ audio_dur = <<0, 1>>
    /\ segments = << >> /\ subs = << >>
    /\ video_dir = {} /\ audio_file = NoFile
    /\ tts_ret = <<0, 1>> /\ worker = "none" /\ jobs = JobsIdle /\ rec = RecIdle /\ runs = RunsIdle
    /\ n_slides = 0 /\ time_per = <<0, 1>>
    /\ images = << >> /\ frame_paths = << >> /\ durations = << >>
    /\ result = NoResult /\ exc = None /\ img = ImgIdle

XfadeNext == XfadeStep \/ ConcatFallback

SpecXfade == XfadeInit /\ [][XfadeNext]_vars

\* an offset has been computed by the chain
OffsetComputed == asm.offset # <<0, 1>>

\* C12: in every step of _xfade_chain the offset is d - c when that is at
\* least 0.1 s and 0.1 s otherwise, for the probed duration d and the
\* crossfade length c; whenever d <= c it is 0.1 s, never zero or negative.
C12_OffsetFloor ==
    OffsetComputed =>
        LET d    == asm.cur_duration
            c    == CROSSFADE_DURATION
            diff == RatAdd(d, <<-c[1], c[2]>>)
        IN  /\ RatLe(<<1, 10>>, diff) => RatEq(asm.offset, diff)
            /\ RatLt(diff, <<1, 10>>) => RatEq(asm.offset, <<1, 10>>)
            /\ RatLe(d, c) => RatEq(asm.offset, <<1, 10>>)
            /\ RatLt(<<0, 1>>, asm.offset)

\* a transition was merged after a probe that reported no more than the
\* crossfade length
C12_Witness ==
    /\ OffsetComputed
    /\ asm.merged.kind = "xfade"
    /\ RatLe(asm.cur_duration, CROSSFADE_DURATION)
    /\ RatEq(asm.offset, <<1, 10>>)

\* a failing step of the chain leads to the concat fallback with no merged
\* file kept, never to the end of the Ken-Burns path
XfadeFailureFallsBack ==
    (pc = "xfade" /\ pc' \notin {"xfade", "mux"}) =>
        pc' = "concat" /\ asm'.merged = NoFile /\ asm'.clips = asm.clips

\* the concat fallback ends in the merged file, or the Ken-Burns path raises
ConcatEnds ==
    (pc = "concat" /\ pc' # "concat") =>
        \/ pc' = "mux" /\ asm'.merged.kind = "concat"
        \/ pc' = "simple" /\ asm'.path = "simple"

\* the concatenation holds every original clip once, in frame order
ConcatOfAllClips ==
    asm.merged.kind = "concat" =>
        /\ asm.concat_list = [k \in 1..Len(asm.clips) |-> k]
        /\ RatEq(asm.merged.len, RatSum(ClipLens))

\* C14: when a step of the crossfade chain fails, _crossfade_clips drops the
\* partial crossfade results and concatenates all original clips in frame
\* order; the Ken-Burns path goes on with that file and raises only when
\* the concatenation itself fails.
C14_ConcatOfOriginals ==
    /\ [][XfadeFailureFallsBack]_vars
    /\ [][ConcatEnds]_vars
    /\ []ConcatOfAllClips

\* the chain failed after it had merged a transition, and the concat of all
\* the clips went on to the audio mux
C14_Witness ==
    /\ pc = "mux"
    /\ asm.merged.kind = "concat"
    /\ OffsetComputed
    /\ Len(asm.concat_list) = Len(asm.clips)
    /\ Len(asm.clips) >= 3

\* C15: in the Ken-Burns path every failure of the audio mux (non-zero exit
\* or timeout) is followed by the caption burn-in of the merged video-only
\* file; the Ken-Burns path does not end because of the mux.
C15_MuxFailureGoesVideoOnly ==
    [][(pc = "mux" /\ pc' # "mux") =>
          /\ pc' = "burn"
          /\ asm'.path = "kenburns"
          /\ asm'.muxed \/ asm'.with_audio = asm.merged]_vars

\* the videos at the output path of the job
OutputVideos == {f \in video_dir : f[1] = "video"}

FallbackReturned ==
    /\ pc \notin {"start", "audio", "tts_join", "tts_fallback"}
    /\ RatEq(tts_ret, SilentDuration(script))
    /\ worker # "exited" \/ audio_file.kind # "speech"

\* C17: when speech synthesis times out, crashes or leaves a missing or
\* undersized file, generate_tts_audio does not raise, leaves a silent track
\* of max(words / 2.5, 15) seconds at the audio path and returns that
\* duration (checked while no surviving worker has touched the file).
C17_SilentTrackProduced ==
    /\ [][pc = "tts_fallback" => pc' \in {"tts_fallback", "segments"}]_vars
    /\ []((pc = "segments" /\ FallbackReturned /\ worker # "gone") =>
             /\ audio_file.kind = "silence"
             /\ RatEq(audio_file.len,
                      RatMax(<<2 * Len(Words(script)), 5>>, <<15, 1>>))
             /\ RatEq(tts_ret, audio_file.len))

\* the files an encoder run with exit status 0 leaves behind
GoodAudio == {"speech", "silence"}

\* C18: after every external encoder run the pipeline goes on only with the
\* file a successful run has produced, or takes the stage's fallback, or
\* raises: after the narration stage the audio path holds the speech or the
\* silent track, and the assembly stages work on clips and merged files
\* that exist (checked where the synthesis worker did not outlive its
\* stage).
C18_NoSilentContinue ==
    /\ []((pc \notin {"start", "audio", "tts_join", "tts_fallback", "raised",
                      "returned"}
             /\ worker \in {"exited", "terminated"}) =>
               audio_file.kind \in GoodAudio)
    /\ [](pc \in {"xfade", "concat", "mux"} =>
               \A k \in 1..Len(asm.clips) : asm.clips[k].kind = "clip")
    /\ [](pc = "mux" => asm.merged.kind \in {"xfade", "concat"})
    /\ [](pc = "burn" => asm.with_audio.kind # "absent")

\* C19: when the synthesis worker exceeds its 30 s, it is no longer running
\* when the silent fallback starts, so it never writes the audio file after
\* the fallback, and it does not outlive the narration stage.
C19_WorkerStopped ==
    /\ [](pc \notin {"audio", "tts_join"} => worker \notin {"running", "orphan"})
    /\ [][(pc \notin {"start", "audio", "tts_join"}
             /\ audio_file' # audio_file) => pc = "tts_fallback"]_vars

\* ------------------------------------------------------------------------
\*  SpecJobs: two calls of create_video in the threads of one process
\*  (process_video_generation is a background task of the request handler)
\*
\*  jobs.ids      the video ids of the two jobs
\*  jobs.at       the position of each job
\*  jobs.files    the paths that exist under TEMP_DIR and VIDEO_DIR
\*  jobs.font_cache  the keys of the module-level _font_cache
\*  jobs.pending  the keys each job found missing (line 111) and is loading
\*  jobs.touched  the process-wide variables each job has mutated
\*  jobs.wrote, jobs.removed  the paths each job has written and removed
\* ------------------------------------------------------------------------

\* video ids are primary keys 1, 2, 3, ...
MaxVideoId == 3

\* the (size, bold) keys of the title frame (lines 216-218) and of a content
\* frame (lines 250-253)
FontKeys(frame) ==
    IF frame = "title"
    THEN {<<56, TRUE>>, <<28, FALSE>>, <<24, FALSE>>}
    ELSE {<<38, TRUE>>, <<48, TRUE>>, <<20, FALSE>>, <<22, FALSE>>}

\* line 601: the job directory; lines 654 and 673-674: the output files
TempPath(id, name) == <<"temp", id, name>>
OutPath(id, name)  == <<"out", id, name>>

nonJobs == <<pc, script, temp_dir, video_dir, audio_file, tts_ret, worker, rec, runs,
             audio_dur, segments, n_slides, time_per, images, frame_paths,
             subs, durations, asm, result, exc, img>>

JobsInit ==
    /\ \E a, b \in 1..MaxVideoId :
         /\ a # b
         /\ jobs = [ids |-> <<a, b>>, at |-> <<"start", "start">>,
                    files |-> {}, font_cache |-> {},
                    pending |-> <<{}, {}>>, touched |-> <<{}, {}>>,
                    wrote |-> <<{}, {}>>, removed |-> <<{}, {}>>]
    /\ pc = "jobs"
    /\ script = << >> /\ audio_dur = <<0, 1>>
    /\ segments = << >> /\ subs = << >>
    /\ temp_dir = NoDir /\ video_dir = {} /\ audio_file = NoFile
    /\ tts_ret = <<0, 1>> /\ worker = "none" /\ rec = RecIdle /\ runs = RunsIdle
    /\ n_slides = 0 /\ time_per = <<0, 1>>
    /\ images = << >> /\ frame_paths = << >> /\ durations = << >>
    /\ asm = AsmIdle /\ result = NoResult /\ exc = None /\ img = ImgIdle

\* job j writes the paths ps
JobWrites(j, ps) ==
    [jobs EXCEPT !.files = @ \cup ps, !.wrote[j] = @ \cup ps]

\* lines 601-602
JobMakeTempDir(j) ==
    /\ jobs.at[j] = "start"
    /\ jobs' = [JobWrites(j, {TempPath(jobs.ids[j], "dir")})
                  EXCEPT !.at[j] = "images"]
    /\ UNCHANGED nonJobs

\* lines 605-617: narration, segments, images; random.shuffle (line 217 of
\* image_service.py) and random.randint (line 118) advance the generator
\* of the random module when photo URLs were found or a gap is filled
JobImages(j) ==
    /\ jobs.at[j] = "images"
    /\ \E rng \in BOOLEAN :
         jobs' = [JobWrites(j, {TempPath(jobs.ids[j], "narration.mp3")})
                    EXCEPT !.touched[j] = @ \cup (IF rng THEN {"random"}
                                                        ELSE {}),
                           !.at[j] = "title"]
    /\ UNCHANGED nonJobs

\* line 111 for the fonts of one frame: the keys not in _font_cache
JobFontLookup(j) ==
    /\ jobs.at[j] \in {"title", "content"}
    /\ jobs' = [jobs EXCEPT
                  !.pending[j] = FontKeys(jobs.at[j]) \ jobs.font_cache,
                  !.at[j] = IF jobs.at[j] = "title" THEN "title_store"
                            ELSE "content_store"]
    /\ UNCHANGED nonJobs

\* lines 112-118 for the keys found missing, then the frame is saved
\* (lines 632 and 643)
JobFontStore(j) ==
    /\ jobs.at[j] \in {"title_store", "content_store"}
    /\ LET title == jobs.at[j] = "title_store"
           frame == IF title THEN "frame_000.png" ELSE "frame_001.png"
       IN  jobs' = [JobWrites(j, {TempPath(jobs.ids[j], frame)}) EXCEPT
                  !.font_cache = @ \cup jobs.pending[j],
                  !.touched[j] = @ \cup (IF jobs.pending[j] # {}
                                         THEN {"_font_cache"} ELSE {}),
                  !.pending[j] = {},
                  !.at[j] = IF title THEN "content" ELSE "publish"]
    /\ UNCHANGED nonJobs

\* lines 653-675: the video and the thumbnail are written to VIDEO_DIR
JobPublish(j) ==
    /\ jobs.at[j] = "publish"
    /\ jobs' = [JobWrites(j, {TempPath(jobs.ids[j], "clips"),
                              OutPath(jobs.ids[j], "video"),
                              OutPath(jobs.ids[j], "thumb")})
                  EXCEPT !.at[j] = "cleanup"]
    /\ UNCHANGED nonJobs

\* lines 687-689: a stage raises
JobRaises(j) ==
    /\ jobs.at[j] \in {"images", "title", "content", "publish"}
    /\ jobs' = [jobs EXCEPT !.at[j] = "cleanup"]
    /\ UNCHANGED nonJobs

\* lines 690-692: rmtree of the job directory
JobCleanup(j) ==
    /\ jobs.at[j] = "cleanup"
    /\ LET mine == {f \in jobs.files :
                      f[1] = "temp" /\ f[2] = jobs.ids[j]}
       IN  jobs' = [jobs EXCEPT !.files = @ \ mine,
                                !.removed[j] = @ \cup mine,
                                !.at[j] = "done"]
    /\ UNCHANGED nonJobs

JobsNext ==
    \E j \in 1..2 :
        \/ JobMakeTempDir(j)
        \/ JobImages(j)
        \/ JobFontLookup(j)
        \/ JobFontStore(j)
        \/ JobPublish(j)
        \/ JobRaises(j)
        \/ JobCleanup(j)

SpecJobs == JobsInit /\ [][JobsNext]_vars

\* the two jobs never touch the same path
PathsDisjoint ==
    /\ jobs.wrote[1] \cap jobs.wrote[2] = {}
    /\ jobs.removed[1] \cap jobs.wrote[2] = {}
    /\ jobs.removed[2] \cap jobs.wrote[1] = {}

\* C20: two concurrent jobs with different ids never write the same
\* temporary or output path, the cleanup of one never removes a file of the
\* other, and no process-wide variable is mutated by both.
C20_NoSharedState ==
    pc = "jobs" =>
        /\ PathsDisjoint
        /\ jobs.touched[1] \cap jobs.touched[2] = {}

\* ------------------------------------------------------------------------
\*  SpecRecord: the row of one video id in the videos table, the background
\*  tasks started for it, and the files of VIDEO_DIR
\*
\*  The id column is an INTEGER PRIMARY KEY of SQLite without AUTOINCREMENT
\*  (database.py line 42), so the id of a deleted row is given to the next
\*  row inserted when it was the largest id.  rec.row.owner tells which of
\*  the videos created in turn the row is; rec.tasks[g] is the task of the
\*  g-th video; rec.cancelled holds the videos deleted while pending or
\*  processing.
\* ------------------------------------------------------------------------

\* videos created one after the other with the same id
MaxVideos == 2

\* lengths of str(e) for the exceptions create_video raises
ErrLens == {40, 500, 501, 900}

\* str(e)[:500] of line 54
ErrorMessage(len) == Min(len, 500)

TaskIdle == [at |-> "none", err |-> 0, outcome |-> "none"]

recFrame == <<pc, script, temp_dir, video_dir, audio_file, tts_ret, worker,
              jobs, runs, audio_dur, segments, n_slides, time_per, images,
              frame_paths, subs, durations, asm, result, exc, img>>

RecInit ==
    /\ rec = [row |-> NoRow, tasks |-> [g \in 1..MaxVideos |-> TaskIdle],
              files |-> {}, cancelled |-> {}, created |-> 0]
    /\ pc = "record"
    /\ script = << >> /\ audio_dur = <<0, 1>>
    /\ segments = << >> /\ subs = << >>
    /\ temp_dir = NoDir /\ video_dir = {} /\ audio_file = NoFile
    /\ tts_ret = <<0, 1>> /\ worker = "none" /\ jobs = JobsIdle
    /\ runs = RunsIdle
    /\ n_slides = 0 /\ time_per = <<0, 1>>
    /\ images = << >> /\ frame_paths = << >> /\ durations = << >>
    /\ asm = AsmIdle /\ result = NoResult /\ exc = None /\ img = ImgIdle

\* generate_video (videos.py lines 76-88) and generate_video_from_document
\* (documents.py lines 183-194): a pending row is inserted and the task is
\* queued
GenerateVideo ==
    /\ ~rec.row.exists
    /\ rec.created < MaxVideos
    /\ LET g == rec.created + 1
       IN  rec' = [rec EXCEPT
                 !.row = [NoRow EXCEPT !.exists = TRUE, !.owner = g,
                                       !.status = "pending"],
                 !.tasks[g] = [TaskIdle EXCEPT !.at = "queued"],
                 !.created = g]
    /\ UNCHANGED recFrame

\* lines 30-37: the row of the id is looked up; without one the task
\* returns, else the status is set to processing and committed
TaskBegin(g) ==
    /\ rec.tasks[g].at = "queued"
    /\ IF rec.row.exists
       THEN rec' = [rec EXCEPT !.row.status = "processing",
                               !.tasks[g].at = "generating"]
       ELSE rec' = [rec EXCEPT !.tasks[g].at = "done"]
    /\ UNCHANGED recFrame

\* line 39: create_video returns with the video eduvid_<id>_<time>.mp4 and
\* the thumbnail thumb_<id>.png written (the thumbnail of an earlier video
\* with the id is overwritten), or raises, with the video possibly written
\* already
TaskGenerate(g) ==
    /\ rec.tasks[g].at = "generating"
    /\ \/ rec' = [rec EXCEPT
                !.files = {f \in @ : f[1] # "thumb"}
                            \cup {<<"video", g>>, <<"thumb", g>>},
                !.tasks[g].at = "returned",
                !.tasks[g].outcome = "returned"]
       \/ \E len \in ErrLens, left \in SUBSET {<<"video", g>>} :
            rec' = [rec EXCEPT
                !.files = @ \cup left,
                !.tasks[g] = [at |-> "raised", err |-> len,
                              outcome |-> "raised"]]
    /\ UNCHANGED recFrame

\* lines 41-47: the UPDATE of the commit goes to the row that has the id;
\* without such a row the commit raises and the except branch is taken
TaskCommit(g) ==
    /\ rec.tasks[g].at = "returned"
    /\ IF rec.row.exists
       THEN rec' = [rec EXCEPT
                !.row.file_path = g,
                !.row.thumbnail_path = TRUE,
                !.row.duration = TRUE,
                !.row.subtitle_text = TRUE,
                !.row.status = "completed",
                !.tasks[g].at = "done"]
       ELSE \E len \in ErrLens :
              rec' = [rec EXCEPT !.tasks[g].at = "raised",
                                 !.tasks[g].err = len]
    /\ UNCHANGED recFrame

\* lines 49-55: the row is looked up again and marked failed
TaskFail(g) ==
    /\ rec.tasks[g].at = "raised"
    /\ IF rec.row.exists
       THEN rec' = [rec EXCEPT
                !.row.status = "failed",
                !.row.error_len = ErrorMessage(rec.tasks[g].err),
                !.tasks[g].at = "done"]
       ELSE rec' = [rec EXCEPT !.tasks[g].at = "done"]
    /\ UNCHANGED recFrame

\* delete_video (lines 184-207): the files the row names are removed, then
\* the row
DeleteVideo ==
    /\ rec.row.exists
    /\ rec' = [rec EXCEPT
          !.files = @ \ ((IF rec.row.file_path # 0
                          THEN {<<"video", rec.row.file_path>>} ELSE {})
                         \cup (IF rec.row.thumbnail_path
                               THEN {f \in @ : f[1] = "thumb"} ELSE {})),
          !.cancelled = IF rec.row.status \in {"pending", "processing"}
                        THEN @ \cup {rec.row.owner} ELSE @,
          !.row = NoRow]
    /\ UNCHANGED recFrame

RecNext ==
    \/ GenerateVideo
    \/ DeleteVideo
    \/ \E g \in 1..MaxVideos :
          \/ TaskBegin(g)
          \/ TaskGenerate(g)
          \/ TaskCommit(g)
          \/ TaskFail(g)

SpecRecord == RecInit /\ [][RecNext]_vars

\* C21: when a video is deleted while its job is pending or processing, then
\* once the job has finished no video or thumbnail file of the job is in the
\* output directory and no row of the video exists.
C21_DeletedJobLeavesNothing ==
    pc = "record" =>
        \A g \in rec.cancelled :
            rec.tasks[g].at = "done" =>
                /\ <<"video", g>> \notin rec.files
                /\ <<"thumb", g>> \notin rec.files
                /\ ~(rec.row.exists /\ rec.row.owner = g)

\* the four artifact fields of the row
ArtifactsSet(row) ==
    /\ row.file_path # 0 /\ row.thumbnail_path
    /\ row.duration /\ row.subtitle_text

NoArtifactSet(row) ==
    /\ row.file_path = 0 /\ ~row.thumbnail_path
    /\ ~row.duration /\ ~row.subtitle_text

\* the row as task g leaves it when it ends
EndsAsClaimed(g, row) ==
    /\ rec.tasks[g].outcome = "raised" =>
         /\ row.status = "failed"
         /\ row.error_len <= 500
         /\ NoArtifactSet(row)
    /\ rec.tasks[g].outcome = "returned" =>
         /\ row.status = "completed"
         /\ ArtifactsSet(row)

\* C22: when create_video raises in the background task the row, if it still
\* exists, ends failed with an error message of at most 500 characters and
\* no artifact field set; when create_video returns the row ends completed
\* with all four artifact fields set (the row being the one the task was
\* started for).
C22_RecordEndState ==
    [][\A g \in 1..MaxVideos :
          (pc = "record" /\ rec.tasks[g].at # "done"
              /\ rec'.tasks[g].at = "done"
              /\ rec'.row.exists /\ rec'.row.owner = g)
            => EndsAsClaimed(g, rec'.row)]_vars

\* the same for a video whose id was never given to a second row
RecordEndStateWithoutIdReuse ==
    [][(pc = "record" /\ rec.created = 1 /\ rec'.created = 1
          /\ rec.tasks[1].at # "done"
          /\ rec'.tasks[1].at = "done" /\ rec'.row.exists)
        => EndsAsClaimed(1, rec'.row)]_vars

\* the status changes the claim allows
StatusMoves ==
    {<<"pending", "processing">>, <<"processing", "completed">>,
     <<"processing", "failed">>}

\* the status of one video's row changes in this step
StatusChanges ==
    /\ pc = "record"
    /\ rec.row.exists /\ rec'.row.exists
    /\ rec.row.owner = rec'.row.owner
    /\ rec.row.status # rec'.row.status

\* C30: the status of a video's row moves only pending -> processing ->
\* completed or failed; the task sets processing before generation starts
\* and starts no generation when the row does not exist as it begins.
C30_StatusMoves ==
    /\ [][StatusChanges => <<rec.row.status, rec'.row.status>> \in StatusMoves]_vars
    /\ [][\A g \in 1..MaxVideos :
             (pc = "record" /\ rec.tasks[g].at = "queued"
                 /\ rec'.tasks[g].at # "queued") =>
               IF rec.row.exists
               THEN rec'.tasks[g].at = "generating"
                    /\ rec'.row.status = "processing"
               ELSE rec'.tasks[g].at = "done"]_vars

\* the same for a video whose id was never given to a second row
StatusMovesWithoutIdReuse ==
    [][(StatusChanges /\ rec'.created = 1) =>
          <<rec.row.status, rec'.row.status>> \in StatusMoves]_vars

\* ------------------------------------------------------------------------
\*  SpecFallback: two runs of create_fallback_image on the same topic, slot
\*  and size, each in a process with its own string-hash secret
\*
\*  hash() of a str is keyed by a secret the interpreter draws at start-up
\*  unless PYTHONHASHSEED fixes it; random.Random(seed) is a function of its
\*  seed.
\* ------------------------------------------------------------------------

\* hash secrets of the interpreter processes
MaxSecret == 2

\* slots 0..MaxVariant (get_topic_images asks for at most 6 images)
MaxVariant == 5

Topics == {<<"s", "u", "n">>, <<"m", "o", "o", "n">>}

CharCode(c) ==
    CASE c = "s" -> 115 [] c = "u" -> 117 [] c = "n" -> 110
      [] c = "m" -> 109 [] c = "o" -> 111 [] OTHER -> 0

\* hash(topic) in a process with the given secret: a keyed hash of the
\* characters, as an integer
RECURSIVE StrHash(_, _)
StrHash(secret, str) ==
    IF str = << >> THEN secret * 1000003
    ELSE (StrHash(secret, SubSeq(str, 1, Len(str) - 1)) * 31
            + CharCode(str[Len(str)])) % 65521

\* the k-th draw rng.randint(lo, hi) of random.Random(seed)
RandInt(seed, k, lo, hi) == lo + ((seed * 7919 + k * 104729) % (hi - lo + 1))

\* the two colours of the preset (line 156), as its index
NumPresets == 8

\* lines 156-192 for a 720 x 1280 image: the gradient preset and the
\* first bokeh circle (centre, radius, opacity); the other 14 circles come
\* from the same generator
create_fallback_image(topic_hash, variant) ==
    LET seed == topic_hash + variant
    IN  [preset |-> variant % NumPresets,
         cx     |-> RandInt(seed, 1, 0, 720),
         cy     |-> RandInt(seed, 2, 0, 1280),
         cr     |-> RandInt(seed, 3, 30, 140),
         alpha  |-> RandInt(seed, 4, 15, 50)]

NoImage == [preset |-> 0, cx |-> 0, cy |-> 0, cr |-> 0, alpha |-> 0]

runsFrame == <<pc, script, temp_dir, video_dir, audio_file, tts_ret, worker,
               jobs, rec, audio_dur, segments, n_slides, time_per, images,
               frame_paths, subs, durations, asm, result, exc, img>>

FallbackInit ==
    /\ \E t \in Topics, v \in 0..MaxVariant, a, b \in 0..MaxSecret :
         runs = [topic |-> t, variant |-> v, secret |-> <<a, b>>,
                 out |-> <<NoImage, NoImage>>]
    /\ pc = "fallback"
    /\ script = << >> /\ audio_dur = <<0, 1>>
    /\ segments = << >> /\ subs = << >>
    /\ temp_dir = NoDir /\ video_dir = {} /\ audio_file = NoFile
    /\ tts_ret = <<0, 1>> /\ worker = "none" /\ jobs = JobsIdle
    /\ rec = RecIdle
    /\ n_slides = 0 /\ time_per = <<0, 1>>
    /\ images = << >> /\ frame_paths = << >> /\ durations = << >>
    /\ asm = AsmIdle /\ result = NoResult /\ exc = None /\ img = ImgIdle

\* run k renders the image
FallbackRun(k) ==
    /\ runs.out[k] = NoImage
    /\ runs' = [runs EXCEPT !.out[k] =
                  create_fallback_image(StrHash(runs.secret[k], runs.topic),
                                        runs.variant)]
    /\ UNCHANGED runsFrame

FallbackNext == \E k \in 1..2 : FallbackRun(k)

SpecFallback == FallbackInit /\ [][FallbackNext]_vars

BothRendered == pc = "fallback" /\ runs.out[1] # NoImage /\ runs.out[2] # NoImage

\* C23: for the same topic, slot and size two runs of create_fallback_image
\* give the same image, also when they run in different processes.
C23_SameImageInAnyTwoRuns ==
    BothRendered => runs.out[1] = runs.out[2]

\* two runs in one process, or in processes with the same hash secret, give
\* the same image
SameImageInOneProcess ==
    (BothRendered /\ runs.secret[1] = runs.secret[2]) =>
        runs.out[1] = runs.out[2]

\* ------------------------------------------------------------------------
\*  SpecTiming: the durations create_video and _assemble_kenburns compute
\*  for scripts of many sentences
\* ------------------------------------------------------------------------

\* one word of 99 letters and a full stop  :  100 characters
PBig == Word(99) \o <<".">>

\* scripts of 1..MaxTimingSentences sentences of 100 characters, which the
\* packing loop leaves one to a segment
MaxTimingSentences == 24

TimingScripts ==
    {JoinPieces([i \in 1..k |-> PBig]) : k \in 1..MaxTimingSentences}
      \cup {JoinPieces([i \in 1..k |-> PLong]) : k \in 1..MaxTimingSentences}

TimingInit ==
    /\ pc = "timing"
    /\ script \in TimingScripts
    /\ audio_dur = <<0, 1>>
    /\ segments = << >> /\ subs = << >>
    /\ temp_dir = NoDir /\ video_dir = {} /\ audio_file = NoFile
    /\ tts_ret = <<0, 1>> /\ worker = "none" /\ jobs = JobsIdle
    /\ rec = RecIdle /\ runs = RunsIdle
    /\ n_slides = 0 /\ time_per = <<0, 1>>
    /\ images = << >> /\ frame_paths = << >> /\ durations = << >>
    /\ asm = AsmIdle /\ result = NoResult /\ exc = None /\ img = ImgIdle

\* line 608: the measured length of the speech or the estimate of the
\* silent fallback, floored at 10 s
TimingNarration ==
    /\ pc = "timing"
    /\ \E ret \in MeasuredLens \cup {SilentDuration(script)} :
         /\ tts_ret' = ret
         /\ audio_dur' = RatMax(ret, <<10, 1>>)
    /\ pc' = "timing_narrated"
    /\ UNCHANGED <<script, temp_dir, video_dir, audio_file, worker, jobs, rec,
                   runs, segments, n_slides, time_per, images, frame_paths,
                   subs, durations, asm, result, exc, img>>

\* lines 611-613 and 656
TimingSlides ==
    /\ pc = "timing_narrated"
    /\ segments' = split_script_into_segments(script)
    /\ n_slides' = Len(segments') + 1
    /\ time_per' = TimePer(audio_dur, n_slides')
    /\ durations' = [k \in 1..n_slides' |-> time_per']
    /\ pc' = "timing_split"
    /\ UNCHANGED <<script, temp_dir, video_dir, audio_file, tts_ret, worker,
                   jobs, rec, runs, audio_dur, images, frame_paths, subs,
                   asm, result, exc, img>>

\* lines 414-435 for all the frames
TimingClips ==
    /\ pc = "timing_split"
    /\ asm' = [AsmIdle EXCEPT
          !.path = "kenburns",
          !.clips = [k \in 1..Len(durations) |->
                       [kind |-> "clip", len |-> ClipDur(durations, k - 1, Len(durations))]]]
    /\ pc' = "timing_clips"
    /\ UNCHANGED <<script, temp_dir, video_dir, audio_file, tts_ret, worker,
                   jobs, rec, runs, audio_dur, segments, n_slides, time_per,
                   images, frame_paths, subs, durations, result, exc, img>>

TimingNext == TimingNarration \/ TimingSlides \/ TimingClips

SpecTiming == TimingInit /\ [][TimingNext]_vars

\* C24: the crossfade length is strictly less than the duration of every
\* clip handed to the crossfade chain, the last one included.
C24_CrossfadeShorterThanClips ==
    \A k \in 1..Len(asm.clips) :
        RatLt(CROSSFADE_DURATION, asm.clips[k].len)

\* C25: split_script_into_segments keeps the trimmed fragments of 10 or
\* more characters as sentences and drops those of fewer than 10.
C25_KeepsTenOrMore ==
    pc = "text_split" =>
        LET atLeast10(p) == Len(p) >= 10
        IN  Sentences(script) = SelectSeq(Fragments(script), atLeast10)

\* segs cut the sentences into consecutive runs ending at ends[1] < ends[2]
\* < ...: every segment is the sentences of its run joined by single
\* blanks, and a run ends only where the next sentence would bring the
\* length to 200 or more
PackedAt(sents, segs, ends) ==
    /\ ends[Len(segs)] = Len(sents)
    /\ \A k \in 1..Len(segs) :
         LET from == IF k = 1 THEN 1 ELSE ends[k - 1] + 1
         IN  /\ from <= ends[k]
             /\ segs[k] = JoinSp(SubSeq(sents, from, ends[k]))
             /\ from < ends[k] => Len(segs[k]) <= 200
             /\ k < Len(segs) =>
                  Len(segs[k]) + Len(sents[ends[k] + 1]) >= 200

\* C26: when a sentence qualifies, the segments joined by single blanks are
\* the qualifying sentences in order, each once and whole; a segment of
\* more than one sentence has at most 200 characters, and the packing is
\* greedy.
C26_GreedyPacking ==
    (pc = "text_split" /\ Sentences(script) # << >>) =>
        LET sents == Sentences(script)
        IN  /\ segments # << >>
            /\ Len(segments) <= Len(sents)
            /\ JoinSp(segments) = JoinSp(sents)
            /\ \E ends \in [1..Len(segments) -> 1..Len(sents)] :
                 PackedAt(sents, segments, ends)

\* three sentences were packed into a segment of two and a segment of one
\* that is longer than 200 characters
C26_Witness ==
    /\ pc = "text_split"
    /\ Len(Sentences(script)) = 3
    /\ Len(segments) = 2
    /\ \E k \in 1..2 : Len(segments[k]) > 200

\* the stage of create_video a position belongs to, in the order of lines
\* 604-685
StageOf(p) ==
    CASE p \in {"start"} -> 0
      [] p \in {"audio", "tts_join", "tts_fallback"} -> 1
      [] p = "segments" -> 2
      [] p = "images" -> 3
      [] p \in {"title", "content"} -> 4
      [] p = "subs" -> 5
      [] p \in {"kb_clip", "xfade", "concat", "mux", "simple", "burn"} -> 6
      [] p = "thumb" -> 7
      [] p = "returned" -> 8
      [] OTHER -> 9

\* the step of the Ken-Burns path a position belongs to
KenBurnsStep(p) ==
    CASE p = "kb_clip" -> 1
      [] p \in {"xfade", "concat"} -> 2
      [] p = "mux" -> 3
      [] p = "burn" -> 4
      [] OTHER -> 0

\* a step stays in its stage, goes on to the next one, or raises
StagesInOrder ==
    \/ pc' = "raised"
    \/ StageOf(pc') = StageOf(pc)
    \/ StageOf(pc') = StageOf(pc) + 1

\* inside the Ken-Burns path a step stays where it is or goes on to the
\* next one
KenBurnsInOrder ==
    (StageOf(pc) = 6 /\ StageOf(pc') = 6
        /\ asm.path = "kenburns" /\ asm'.path = "kenburns") =>
       \/ KenBurnsStep(pc') = KenBurnsStep(pc)
       \/ KenBurnsStep(pc') = KenBurnsStep(pc) + 1

\* what a stage finds done when it starts
StageInputsReady ==
    /\ StageOf(pc) \in 2..8 => RatLe(<<10, 1>>, audio_dur)
    /\ StageOf(pc) \in 3..8 => segments # << >> /\ n_slides = Len(segments) + 1
    /\ StageOf(pc) \in 4..8 => images # << >>
    /\ StageOf(pc) \in 5..8 => Len(frame_paths) = n_slides
    /\ StageOf(pc) \in 6..8 => Len(durations) = n_slides
    /\ StageOf(pc) \in 7..8 => asm.burn # "none"
    /\ (asm.path = "kenburns" /\ KenBurnsStep(pc) >= 2) =>
          Len(asm.clips) = Len(frame_paths)
    /\ (asm.path = "kenburns" /\ KenBurnsStep(pc) >= 3) =>
          asm.merged.kind \in {"xfade", "concat"}
    /\ (asm.path = "kenburns" /\ KenBurnsStep(pc) >= 4) =>
          asm.with_audio.kind # "absent"

\* C27: the stages of a job run one after the other in the order narration,
\* segmentation, images, frames, subtitles, assembly, thumbnail; in the
\* Ken-Burns path all clips are rendered before the merge, the merge is
\* done before the audio mux and the mux before the caption burn-in.
C27_StagesInSequence ==
    /\ [][StagesInOrder]_vars
    /\ [][KenBurnsInOrder]_vars
    /\ [](StageOf(pc) <= 8 => StageInputsReady)

\* a job went through every stage and every step of the Ken-Burns path
C27_Witness ==
    /\ pc = "returned"
    /\ asm.path = "kenburns"
    /\ asm.merged.kind = "xfade"
    /\ asm.muxed
    /\ Len(asm.clips) >= 3

\* the content frames rendered so far, as positions of frame_paths
\* (position 1 is the title frame, position k + 2 is content frame k)
ContentFrames == 2..Len(frame_paths)

\* C28: content frame i (0-based) is drawn from image slot i + 1 when the
\* list has that slot and from the last image otherwise, always inside the
\* list; two content frames have the same image only when the script has
\* more than 5 segments.
C28_ContentFrameImages ==
    /\ \A k \in ContentFrames :
          LET i == k - 2
          IN  /\ frame_paths[k] \in 1..Len(images)
              /\ (i + 1 < Len(images)) => frame_paths[k] = i + 2
              /\ ~(i + 1 < Len(images)) => frame_paths[k] = Len(images)
    /\ \A j, k \in ContentFrames :
          (j # k /\ frame_paths[j] = frame_paths[k]) => Len(segments) > 5

\* six segments: the sixth content frame is drawn from the last image, the
\* one of the fifth
C28_Witness ==
    /\ pc = "subs"
    /\ Len(segments) = 6
    /\ Len(images) = 6
    /\ Len(frame_paths) = 7
    /\ frame_paths[7] = 6
    /\ frame_paths[6] = 6

\* the nominal length of clip k (1-based) of n plus its crossfade overlap
NominalClip(k, n) ==
    RatAdd(durations[k], IF k < n THEN CROSSFADE_DURATION ELSE <<0, 1>>)

\* (n - 1) crossfade lengths
Overlaps(n) == RatMulInt(CROSSFADE_DURATION, n - 1)

RatNeg(a) == <<-a[1], a[2]>>

\* |a - b| <= c
RatWithin(a, b, c) ==
    /\ RatLe(RatAdd(a, RatNeg(b)), c)
    /\ RatLe(RatAdd(b, RatNeg(a)), c)

\* no offset of the chain over clips of these lengths meets the floor of
\* line 508: before step k the merged file lasts the first k clips less
\* their k - 1 overlaps
ChainUnclamped(lens) ==
    \A k \in 1..(Len(lens) - 1) :
        RatLe(<<7, 10>>,
              RatAdd(RatSum(SubSeq(lens, 1, k)), RatNeg(Overlaps(k))))

\* the whole chain of _xfade_chain has succeeded
ChainDone ==
    /\ asm.path = "kenburns"
    /\ asm.merged.kind = "xfade"
    /\ asm.i = Len(asm.clips)
    /\ Len(asm.clips) = Len(frame_paths)

\* the concat fallback has written the merged file
ConcatDone ==
    /\ asm.path = "kenburns"
    /\ asm.merged.kind = "concat"

\* every slide duration is a whole number of hundredths
WholeHundredths == \A k \in 1..Len(durations) : RatEq(Round2(durations[k]), durations[k])

\* C29: every clip but the last lasts its nominal duration plus the
\* crossfade length and the last its nominal duration; after a whole chain
\* with unclamped offsets the merged video lasts exactly the sum of the
\* nominal durations, the audio duration, and after the concat fallback
\* that sum plus (clips - 1) crossfade lengths.
C29_MergedLength ==
    asm.path = "kenburns" =>
      /\ \A k \in 1..Len(asm.clips) :
            RatEq(asm.clips[k].len, NominalClip(k, Len(frame_paths)))
      /\ (ChainDone /\ ChainUnclamped(ClipLens)) =>
            /\ RatEq(asm.merged.len, RatSum(durations))
            /\ RatEq(asm.merged.len, audio_dur)
      /\ ConcatDone =>
            RatEq(asm.merged.len,
                  RatAdd(RatSum(durations), Overlaps(Len(asm.clips))))

\* C29 (amended): every clip lasts its nominal duration, plus the crossfade
\* length for all but the last, rounded to hundredths of a second; after a
\* whole chain with unclamped offsets the merged video lasts the sum of the
\* clip lengths less (clips - 1) crossfade lengths, after the concat
\* fallback the sum of the clip lengths; either is within half a hundredth
\* per clip of the value the claim gives, and equal to it when the slide
\* duration is a whole number of hundredths.
C29_MergedLengthRounded ==
    asm.path = "kenburns" =>
      LET n == Len(asm.clips)
          half == <<n, 200>>
      IN  /\ \A k \in 1..n :
                RatEq(asm.clips[k].len,
                      Round2(NominalClip(k, Len(frame_paths))))
          /\ (ChainDone /\ ChainUnclamped(ClipLens)) =>
                /\ RatEq(asm.merged.len,
                         RatAdd(RatSum(ClipLens), RatNeg(Overlaps(n))))
                /\ RatWithin(asm.merged.len, audio_dur, half)
                /\ WholeHundredths => RatEq(asm.merged.len, audio_dur)
          /\ ConcatDone =>
                /\ RatEq(asm.merged.len, RatSum(ClipLens))
                /\ RatWithin(asm.merged.len,
                             RatAdd(audio_dur, Overlaps(n)), half)
                /\ WholeHundredths =>
                      RatEq(asm.merged.len, RatAdd(audio_dur, Overlaps(n)))

\* a whole chain over clips whose lengths were rounded: the merged video
\* does not last the audio duration
C29_Witness ==
    /\ pc = "mux"
    /\ ChainDone
    /\ ChainUnclamped(ClipLens)
    /\ Len(asm.clips) >= 3
    /\ ~WholeHundredths
    /\ ~RatEq(asm.merged.len, audio_dur)

TypeOK ==
    /\ pc \in {"start", "audio", "tts_join", "tts_fallback", "segments", "images", "title", "content",
               "subs", "kb_clip", "xfade", "concat", "mux", "simple", "burn",
               "thumb", "returned", "raised"}
    /\ temp_dir.exists \in BOOLEAN
    /\ Len(frame_paths) <= n_slides

\* ------------------------------------------------------------------------
\*  Properties of create_video
\* ------------------------------------------------------------------------

Exited == pc \in {"returned", "raised"}

\* the content loop has finished (segments then holds the result of
\* split_script_into_segments(script), line 611)
FramesRendered ==
    pc \in {"subs", "kb_clip", "xfade", "concat", "mux", "simple", "burn",
            "thumb", "returned"}

\* line 656 has run
DurationsAssigned ==
    pc \in {"kb_clip", "xfade", "concat", "mux", "simple", "burn", "thumb",
            "returned"}

\* C1: once create_video has returned or raised, at whatever stage, the job
\* directory video_<id> does not exist.
C1_TempDirRemoved == Exited => ~temp_dir.exists

\* both assembly paths failed after frames, subtitles and clips were written
C1_Witness ==
    /\ pc = "raised"
    /\ exc = "simple assembly"
    /\ Len(asm.clips) >= 1
    /\ ~temp_dir.exists

\* C2 (as claimed): create_video either returns a manifest whose video and
\* thumbnail exist in the output directory, or raises and leaves no file of
\* the job in the output directory.
C2_NoPartialPublish ==
    /\ pc = "returned" =>
          /\ result.set
          /\ \E c \in {"captioned", "uncaptioned"} : <<"video", c>> \in video_dir
          /\ <<"thumb", "png">> \in video_dir
    /\ pc = "raised" => video_dir = {}

\* C6 (as claimed): segmentCount + 1 frames are rendered and
\* get_topic_images returned segmentCount + 1 images.
C6_FramesAndImagesMatch ==
    FramesRendered =>
        LET segmentCount == Len(segments)
        IN  /\ Len(frame_paths) = segmentCount + 1
            /\ Len(images) = segmentCount + 1

\* C6 (amended): segmentCount + 1 frames are rendered, and get_topic_images
\* returned 1 + min(segmentCount, 5) images, which is segmentCount + 1 only
\* for scripts of at most 5 segments.
C6_FramesAndCappedImages ==
    FramesRendered =>
        LET segmentCount == Len(segments)
        IN  /\ Len(frame_paths) = segmentCount + 1
            /\ Len(images) = 1 + Min(segmentCount, 5)
            /\ (Len(images) = segmentCount + 1) <=> (segmentCount <= 5)

\* a script of more than 5 segments has been rendered
C6_Witness ==
    /\ FramesRendered
    /\ Len(segments) > 5
    /\ Len(frame_paths) = Len(segments) + 1
    /\ Len(images) = 6

\* C8: split_script_into_segments returns a non-empty list for every script,
\* so n_slides is at least 2 and the division of line 613 has a non-zero
\* divisor.
C8_AtLeastTwoSlides ==
    pc \notin {"start", "audio", "tts_join", "tts_fallback", "segments"} =>
        /\ Len(segments) >= 1
        /\ n_slides = Len(segments) + 1
        /\ n_slides >= 2
        /\ time_per[2] # 0

\* a non-empty script without a qualifying sentence has been segmented
C8_Witness ==
    /\ pc = "images"
    /\ script # << >>
    /\ Sentences(script) = << >>
    /\ n_slides = 2

\* C9 (as claimed): the per-slide durations are all audio_dur / n_slides and
\* add up to the measured length of the narration track that was produced
\* (checked where the worker process ended by itself).
C9_SumIsMeasuredLength ==
    (DurationsAssigned /\ worker = "exited"
        /\ audio_file.kind \in {"speech", "silence"}) =>
        /\ \A k \in 1..Len(durations) :
              RatEq(durations[k], RatDivInt(audio_dur, n_slides))
        /\ RatEq(RatSum(durations), audio_file.len)

\* C9 (amended): the per-slide durations are all audio_dur / n_slides and add
\* up to audio_dur = max(value returned by generate_tts_audio, 10 s); where
\* the worker process ended by itself that is the length of the track
\* produced when the track is at least 10 s long, and 10 s when the speech
\* produced is shorter.
C9_SumIsFlooredDuration ==
    DurationsAssigned =>
        /\ Len(durations) = n_slides
        /\ \A k \in 1..Len(durations) :
              RatEq(durations[k], RatDivInt(audio_dur, n_slides))
        /\ RatEq(RatSum(durations), audio_dur)
        /\ RatEq(audio_dur, RatMax(tts_ret, <<10, 1>>))
        /\ (worker = "exited"
               /\ audio_file.kind \in {"speech", "silence"}) =>
              IF RatLe(<<10, 1>>, audio_file.len)
              THEN RatEq(RatSum(durations), audio_file.len)
              ELSE RatEq(RatSum(durations), <<10, 1>>)

\* speech shorter than 10 s has been split over three or more slides
C9_Witness ==
    /\ DurationsAssigned
    /\ audio_file.kind = "speech"
    /\ RatLt(audio_file.len, <<10, 1>>)
    /\ Len(durations) >= 3

\* ------------------------------------------------------------------------
\*  SpecImages: one call of get_topic_images
\*
\*  img.futures maps each submitted slot to the state of its future:
\*  "queued", "running", "done_image", "done_none", and "collected" once
\*  as_completed has yielded it.  Time is abstract: the collection timeout
\*  can elapse whenever a submitted worker has not finished.
\* ------------------------------------------------------------------------

\* max_workers of the two pools (lines 218 and 238)
PoolSize(phase) == IF phase = "photo" THEN 3 ELSE 2

\* mutant: every slot is a gap
Gaps_AllSlots(imgs) == DOMAIN imgs

\* gaps of line 235
Gaps(imgs) == {i \in DOMAIN imgs : imgs[i] = None}

\* the prompts of _make_prompts: one for the title and one per segment, at
\* most 5 segments
PromptCount(nsegs) == 1 + Min(nsegs, 5)

FuturesIn(states) == {i \in DOMAIN img.futures : img.futures[i] \in states}

Unfinished == FuturesIn({"queued", "running"})

AllCollected == \A i \in DOMAIN img.futures : img.futures[i] = "collected"

ImgInit ==
    /\ pc = "img_start"
    /\ \E n \in 0..MaxSegments : img = [ImgIdle EXCEPT !.nsegs = n]
    /\ images = << >>
    /\ script = << >> /\ audio_dur = <<0, 1>>
    /\ segments = << >> /\ subs = << >>
    /\ temp_dir = NoDir /\ video_dir = {} /\ audio_file = NoFile
    /\ tts_ret = <<0, 1>> /\ worker = "none" /\ jobs = JobsIdle /\ rec = RecIdle /\ runs = RunsIdle
    /\ n_slides = 0 /\ time_per = <<0, 1>>
    /\ frame_paths = << >> /\ durations = << >>
    /\ asm = AsmIdle /\ result = NoResult /\ exc = None

imgFrame == <<script, audio_dur, segments, subs, jobVars>>

\* lines 208-221: the slots, the photo search, and the submission of one
\* download per slot that has a URL
PhotoSearch ==
    /\ pc = "img_start"
    /\ LET needed == Needed(img.nsegs)
       IN  \E urls \in 0..Min(needed + 4, MaxUrls) :
             /\ images' = [i \in 1..needed |-> None]
             /\ img' = [img EXCEPT
                   !.needed = needed,
                   !.urls = urls,
                   !.phase = "photo",
                   !.futures = [i \in 1..Min(needed, urls) |-> "queued"]]
    /\ pc' = "collect"
    /\ UNCHANGED <<imgFrame, exc>>

\* a pool thread takes the oldest queued work item
WorkerStart ==
    /\ pc \in {"collect", "exit_wait"}
    /\ FuturesIn({"queued"}) # {}
    /\ Cardinality(FuturesIn({"running"})) < PoolSize(img.phase)
    /\ LET i == KthOf(FuturesIn({"queued"}), 1)
       IN  img' = [img EXCEPT !.futures[i] = "running"]
    /\ UNCHANGED <<pc, images, imgFrame, exc>>

\* _download_image (lines 88-103) / fetch_ai_image (lines 109-136) return an
\* image, or None after any failure
WorkerFinish ==
    /\ pc \in {"collect", "exit_wait"}
    /\ \E i \in FuturesIn({"running"}) :
         \E r \in {"done_image", "done_none"} :
            img' = [img EXCEPT !.futures[i] = r]
    /\ UNCHANGED <<pc, images, imgFrame, exc>>

\* lines 222-229 / 243-250: as_completed yields a finished future
Collect ==
    /\ pc = "collect"
    /\ \E i \in FuturesIn({"done_image", "done_none"}) :
         /\ images' = IF img.futures[i] = "done_image"
                      THEN [images EXCEPT ![i] = img.phase]
                      ELSE images
         /\ img' = [img EXCEPT !.futures[i] = "collected"]
    /\ UNCHANGED <<pc, imgFrame, exc>>

\* lines 222 / 243: the timeout of as_completed elapses with workers
\* outstanding; it raises TimeoutError from the for statement, outside the
\* try of lines 224-229, and the with block starts its shutdown(wait=True)
CollectionTimeout ==
    /\ pc = "collect"
    /\ Unfinished # {}
    /\ img' = [img EXCEPT !.timed_out = img.phase]
    /\ pc' = "exit_wait"
    /\ UNCHANGED <<images, imgFrame, exc>>

\* lines 218 / 238: the pool has joined its workers and the TimeoutError
\* leaves get_topic_images
PoolExitRaises ==
    /\ pc = "exit_wait"
    /\ Unfinished = {}
    /\ exc' = "TimeoutError"
    /\ pc' = "img_raised"
    /\ UNCHANGED <<images, img, imgFrame>>

\* lines 231-242: one generation request per gap
AiSubmit ==
    /\ pc = "collect"
    /\ img.phase = "photo"
    /\ AllCollected
    /\ Gaps(images) # {}
    /\ img' = [img EXCEPT
          !.phase = "ai",
          !.futures = [i \in {g \in Gaps(images) :
                                g - 1 < PromptCount(img.nsegs)} |-> "queued"]]
    /\ UNCHANGED <<pc, images, imgFrame, exc>>

\* lines 254-262: the gradient fills what is still empty
GradientFill ==
    /\ pc = "collect"
    /\ AllCollected
    /\ img.phase = "ai" \/ Gaps(images) = {}
    /\ images' = [i \in DOMAIN images |->
                    IF images[i] = None THEN "gradient" ELSE images[i]]
    /\ pc' = "img_returned"
    /\ UNCHANGED <<img, imgFrame, exc>>

ImgNext ==
    \/ PhotoSearch
    \/ WorkerStart
    \/ WorkerFinish
    \/ Collect
    \/ CollectionTimeout
    \/ PoolExitRaises
    \/ AiSubmit
    \/ GradientFill

SpecImages == ImgInit /\ [][ImgNext]_vars

ImgTypeOK ==
    /\ pc \in {"img_start", "collect", "exit_wait", "img_returned",
               "img_raised"}
    /\ \A i \in DOMAIN images :
          images[i] \in {None, "photo", "ai", "gradient"}

\* ------------------------------------------------------------------------
\*  Properties of get_topic_images
\* ------------------------------------------------------------------------

\* no filled slot is written again
SlotsKept ==
    \A i \in DOMAIN images :
        images[i] # None => (i \in DOMAIN images' /\ images'[i] = images[i])

\* C3: when get_topic_images returns every slot holds an image; a slot, once
\* filled by a tier, is never requested from a later tier nor overwritten by
\* it, and slots whose download or generation failed are filled all the same.
C3_OneTierPerSlot ==
    /\ [](pc = "img_returned" =>
            /\ Len(images) = img.needed
            /\ \A i \in DOMAIN images :
                  images[i] \in {"photo", "ai", "gradient"})
    /\ [](img.phase = "ai" =>
            \A i \in DOMAIN img.futures :
               /\ images[i] # "photo"
               /\ images[i] = "ai" => img.futures[i] = "collected")
    /\ [][SlotsKept]_vars

\* a call has returned with one slot from each tier
C3_Witness ==
    /\ pc = "img_returned"
    /\ \E i, j, k \in DOMAIN images :
          /\ images[i] = "photo"
          /\ images[j] = "ai"
          /\ images[k] = "gradient"

\* C4 (as claimed): no failure of the photo tier or of the AI tier makes
\* get_topic_images raise.
C4_NeverRaises == pc # "img_raised"

\* C5 (as claimed): when the collection timeout of a phase elapses with
\* workers outstanding, the phase neither raises nor waits for them; it goes
\* on to the next tier with the results collected so far.
C5_TimeoutAbandons ==
    img.timed_out # "none" => pc \notin {"exit_wait", "img_raised"}

\* C7: get_topic_images returns 1 + min(len(segments), 5) images.
C7_ReturnedLength ==
    pc = "img_returned" => Len(images) = 1 + Min(img.nsegs, 5)

\* a call with more than 5 segments has returned
C7_Witness ==
    /\ pc = "img_returned"
    /\ img.nsegs > 5
    /\ Len(images) = 6

====
